---- MODULE Spec2Model ----
(***************************************************************************)
(* Model of src/app.py: the FMCSA register pipeline.                       *)
(*                                                                         *)
(* Python strings are modelled as sequences of characters (each character  *)
(* a one-symbol TLA+ string).  Three long literal phrases are abbreviated  *)
(* to one symbol each:                                                     *)
(*   "S1" = CERTIFICATES, PERMITS & LICENSES FILED AFTER JANUARY 1, 1995   *)
(*          then white space then NUMBER                                   *)
(*   "S2" = CERTIFICATES OF REGISTRATION then white space then NUMBER      *)
(*          ("s2" is the same phrase in lower case)                        *)
(*   "E2" = DISMISSALS then white space then Decisions                     *)
(*   "L"  = the literal USDOT Number:                                      *)
(* Python None is the one-element sequence <<"None">>, which is not a      *)
(* string of characters.  Python dicts are records whose DOMAIN is the     *)
(* dict's key set.                                                         *)
(***************************************************************************)
EXTENDS Integers, Sequences, FiniteSets, TLC

VARIABLES pc, date, full_text, mc_list, mc_numbers, pdf_url, exc, idx,
          usdot_result, usdot, results, response, trace

vars == <<pc, date, full_text, mc_list, mc_numbers, pdf_url, exc, idx,
          usdot_result, usdot, results, response, trace>>

\* ---------------------------------------------------------------- bounds
MaxPages == 5

\* ------------------------------------------------------ program constants
MinDigits == 4
MaxDigits == 8
SleepSeconds == 3
HttpOk == 200
HttpBadRequest == 400

None == <<"None">>

Digits == {"0", "1", "2", "3", "4", "5", "6", "7", "8", "9"}

\* code point of a character, as Python compares strings
Ord(c) ==
  CASE c = "\n" -> 10
    [] c = " " -> 32
    [] c = "-" -> 45
    [] c = "0" -> 48
    [] c = "1" -> 49
    [] c = "2" -> 50
    [] c = "3" -> 51
    [] c = "4" -> 52
    [] c = "5" -> 53
    [] c = "6" -> 54
    [] c = "7" -> 55
    [] c = "8" -> 56
    [] c = "9" -> 57
    [] c = "C" -> 67
    [] c = "M" -> 77
    [] OTHER -> 128

\* mutation: only None counts as missing
TruthyNotNone(v) == v # None

\* Python's truth value of an optional string: None and "" are false
Truthy(v) == v # None /\ v # <<>>

Min(a, b) == IF a < b THEN a ELSE b

\* --------------------------------------------------- text extraction
\* lines 28-32: page texts in page order, a newline after each page that
\* produced text, nothing for a page that produced none
RECURSIVE ExtractText(_)
ExtractText(pages) ==
  IF pages = <<>> THEN <<>>
  ELSE LET page_text == Head(pages)
       IN  (IF page_text # <<>> THEN page_text \o <<"\n">> ELSE <<>>)
           \o ExtractText(Tail(pages))

\* --------------------------------------------------- regular expressions
\* number of consecutive digits of t starting at position p
RECURSIVE DigitRun(_, _)
DigitRun(t, p) ==
  IF p > Len(t) \/ t[p] \notin Digits THEN 0 ELSE 1 + DigitRun(t, p + 1)

\* re.IGNORECASE on the section headings: letter case is folded
Upper(c) == IF c = "s2" THEN "S2" ELSE c

\* mutation: a start marker without an end marker opens a region that runs
\* to the end of the text
SearchRegionToEnd(t, start, end) ==
  LET starts == {i \in 1..Len(t) : Upper(t[i]) = start}
  IN  IF starts = {} THEN None
      ELSE LET i == CHOOSE x \in starts : \A y \in starts : x <= y
               ends == {x \in (i + 1)..Len(t) : Upper(t[x]) = end}
               j == IF ends = {} THEN Len(t) + 1
                    ELSE CHOOSE x \in ends : \A y \in ends : x <= y
           IN  SubSeq(t, i + 1, j - 1)

\* re.search(START(.*?)END, t, DOTALL | IGNORECASE).group(1): the leftmost
\* start marker that has an end marker to its right, then the shortest span
\* up to an end marker; None when the pattern does not match
SearchRegion(t, start, end) ==
  LET starts == {i \in 1..Len(t) :
                   /\ Upper(t[i]) = start
                   /\ \E j \in (i + 1)..Len(t) : Upper(t[j]) = end}
  IN  IF starts = {} THEN None
      ELSE LET i == CHOOSE x \in starts : \A y \in starts : x <= y
               j == CHOOSE x \in (i + 1)..Len(t) :
                      /\ Upper(t[x]) = end
                      /\ \A y \in (i + 1)..(x - 1) : Upper(t[y]) # end
           IN  SubSeq(t, i + 1, j - 1)

\* does 'MC-' followed by at least MinDigits digits start at position p
McAt(t, p) ==
  /\ p + 2 <= Len(t)
  /\ t[p] = "M" /\ t[p + 1] = "C" /\ t[p + 2] = "-"
  /\ DigitRun(t, p + 3) >= MinDigits

\* re.findall(r'MC-\d{4,8}', t) scanning from position p: non-overlapping
\* matches left to right, each taking as many digits as it can up to MaxDigits
RECURSIVE FindAllFrom(_, _)
FindAllFrom(t, p) ==
  IF p > Len(t) THEN <<>>
  ELSE IF McAt(t, p)
       THEN LET n == Min(DigitRun(t, p + 3), MaxDigits)
            IN  <<SubSeq(t, p, p + 2 + n)>> \o FindAllFrom(t, p + 3 + n)
       ELSE FindAllFrom(t, p + 1)

FindAll(t) == FindAllFrom(t, 1)

\* lines 38-41 and 45-48: the identifiers one section adds to the list
SectionMatches(t, start, end) ==
  LET text_n == SearchRegion(t, start, end)
  IN  IF text_n # None THEN FindAll(text_n) ELSE <<>>

\* Python's < on strings: first differing code point, a proper prefix first
RECURSIVE LexLess(_, _)
LexLess(a, b) ==
  IF b = <<>> THEN FALSE
  ELSE IF a = <<>> THEN TRUE
  ELSE IF Head(a) = Head(b) THEN LexLess(Tail(a), Tail(b))
  ELSE Ord(Head(a)) < Ord(Head(b))

\* set(list)
SetOf(list) == {list[i] : i \in DOMAIN list}

\* mutation: order by length first (numeric order of the digits)
RECURSIVE SortedNumeric(_)
SortedNumeric(S) ==
  IF S = {} THEN <<>>
  ELSE LET m == CHOOSE x \in S : \A y \in S :
                  x = y \/ Len(x) < Len(y) \/ (Len(x) = Len(y) /\ LexLess(x, y))
       IN  <<m>> \o SortedNumeric(S \ {m})

\* sorted(S) for a set of strings
RECURSIVE Sorted(_)
Sorted(S) ==
  IF S = {} THEN <<>>
  ELSE LET m == CHOOSE x \in S : \A y \in S : x = y \/ LexLess(x, y)
       IN  <<m>> \o Sorted(S \ {m})

\* lines 34-51 as one function of the document text
ScanText(t) ==
  Sorted(SetOf(SectionMatches(t, "S1", "S2") \o SectionMatches(t, "S2", "E2")))

\* --------------------------------------------------- documents
Mc(digits) == <<"M", "C", "-">> \o digits

\* the page texts a document is made of: a page without text, the section
\* headings, and identifier-shaped tokens of 3, 4, 4, 8 and 9 digits
PageTexts ==
  { <<>>, <<"S1">>, <<"S2">>, <<"s2">>, <<"E2">>,
    Mc(<<"1", "2", "3">>),
    Mc(<<"1", "2", "3", "4">>),
    Mc(<<"2", "2", "2", "2">>),
    Mc(<<"1", "2", "3", "4", "5", "6", "7", "8">>),
    Mc(<<"1", "2", "3", "4", "5", "6", "7", "8", "9">>) }

Documents == UNION {[1..n -> PageTexts] : n \in 0..MaxPages}

NoResponse == [status |-> 0]

\* ------------------------------------------- parse_pdf_for_mc, stepwise
\* state at line 34: the text has been extracted, the list is empty
InitScan ==
  /\ pc = "section_1"
  /\ \E pages \in Documents : full_text = ExtractText(pages)
  /\ mc_list = <<>>
  /\ mc_numbers = <<>>
  /\ date = <<"2", "0", "2", "4", "0", "1", "0", "2">>
  /\ pdf_url = None
  /\ exc = None
  /\ idx = 0
  /\ usdot_result = [none |-> TRUE]
  /\ usdot = None
  /\ results = <<>>
  /\ response = NoResponse
  /\ trace = <<>>

Section1 ==
  /\ pc = "section_1"
  /\ mc_list' = mc_list \o SectionMatches(full_text, "S1", "S2")
  /\ pc' = "section_2"
  /\ UNCHANGED <<date, full_text, mc_numbers, pdf_url, exc, idx,
                 usdot_result, usdot, results, response, trace>>

Section2 ==
  /\ pc = "section_2"
  /\ mc_list' = mc_list \o SectionMatches(full_text, "S2", "E2")
  /\ pc' = "return"
  /\ UNCHANGED <<date, full_text, mc_numbers, pdf_url, exc, idx,
                 usdot_result, usdot, results, response, trace>>

ReturnSorted ==
  /\ pc = "return"
  /\ mc_numbers' = Sorted(SetOf(mc_list))
  /\ pc' = "parsed"
  /\ UNCHANGED <<date, full_text, mc_list, pdf_url, exc, idx,
                 usdot_result, usdot, results, response, trace>>

NextScan == Section1 \/ Section2 \/ ReturnSorted

SpecScan == InitScan /\ [][NextScan]_vars


\* ------------------------------------------------- the outside world
\* status codes the three services answer with
StatusCodes == {200, 404, 503}

StatusStr(code) ==
  CASE code = 200 -> <<"2", "0", "0">>
    [] code = 404 -> <<"4", "0", "4">>
    [] code = 503 -> <<"5", "0", "3">>

\* str(e) of an exception raised by a request or by the PDF reader
ExceptionTexts == {<<>>, <<"t", "i", "m", "e", "d", " ", "o", "u", "t">>}

\* bodies of the lookup page: empty, label with 6 digits, label with 3
\* digits, label with the digits on the next line, label with 9 digits
LookupBodies ==
  { <<>>,
    <<"L", " ", "1", "2", "3", "4", "5", "6">>,
    <<"L", " ", "1", "2", "3">>,
    <<"L", "\n", "1", "2", "3", "4">>,
    <<"L", "9", "8", "7", "6", "5", "4", "3", "2", "1">> }

\* carrier registration pages: without the list, with two items of which one
\* lacks its label, with an empty list
DetailPages ==
  { [ul_col1 |-> FALSE, items |-> <<>>],
    [ul_col1 |-> TRUE, items |-> <<>>],
    [ul_col1 |-> TRUE,
     items |-> << [label |-> <<"A", "d", "d", "r", ":">>,
                   span |-> <<"1", "\n", "M", "a", "i", "n">>],
                  [label |-> None, span |-> <<"x">>] >>] }

\* what requests.get does: returns a response or raises
Replies(bodies) ==
  [kind : {"response"}, status_code : StatusCodes, text : bodies,
   msg : {<<>>}]
  \cup [kind : {"raise"}, status_code : {0}, text : {<<>>},
        msg : ExceptionTexts]

\* dict.get(key, default)
Get(d, key, default) == IF key \in DOMAIN d THEN d[key] ELSE default

\* ------------------------------------------------------- fetch_usdot
\* re.search(r'USDOT Number:.*?(\d{4,8})', t).group(1): the leftmost label
\* with a run of at least MinDigits digits later on the same line (. does
\* not match a newline), the first such run, at most MaxDigits of it
SearchUsdot(t) ==
  LET Reach(i, j) == /\ DigitRun(t, j) >= MinDigits
                     /\ \A k \in (i + 1)..(j - 1) : t[k] # "\n"
      labels == {i \in 1..Len(t) :
                   t[i] = "L" /\ \E j \in (i + 1)..Len(t) : Reach(i, j)}
  IN  IF labels = {} THEN None
      ELSE LET i == CHOOSE x \in labels : \A y \in labels : x <= y
               j == CHOOSE x \in (i + 1)..Len(t) :
                      Reach(i, x) /\ \A y \in (i + 1)..(x - 1) : ~Reach(i, y)
           IN  SubSeq(t, j, j + Min(DigitRun(t, j), MaxDigits) - 1)

fetch_usdot(mc, reply) ==
  IF reply.kind = "raise"
  THEN [error |-> <<"Exception while fetching USDOT for MC: ">> \o mc,
        details |-> reply.msg]
  ELSE IF reply.status_code # HttpOk
  THEN [error |-> <<"FMCSA rejected the request for MC: ">> \o mc,
        status |-> reply.status_code]
  ELSE [mc |-> mc, usdot |-> SearchUsdot(reply.text)]

\* ------------------------------------------------ fetch_carrier_details
\* str.replace(old, new) for a one-character old
RECURSIVE Replace(_, _, _)
Replace(str, old, new) ==
  IF str = <<>> THEN <<>>
  ELSE (IF Head(str) = old THEN new ELSE <<Head(str)>>)
       \o Replace(Tail(str), old, new)

\* lines 98-104: the label -> value mapping of the list items
RECURSIVE CarrierInfo(_, _)
CarrierInfo(items, carrier_info) ==
  IF items = <<>> THEN carrier_info
  ELSE LET li == Head(items)
       IN  IF li.label # None /\ li.span # None
           THEN LET key == Replace(li.label, ":", <<>>)
                    value == Replace(Replace(li.span, "\n", <<" ">>), "\r", <<>>)
                IN  CarrierInfo(Tail(items), (key :> value) @@ carrier_info)
           ELSE CarrierInfo(Tail(items), carrier_info)

fetch_carrier_details(u, reply) ==
  IF reply.kind = "raise"
  THEN [error |-> <<"Exception during scraping for USDOT: ">> \o u,
        details |-> reply.msg]
  ELSE IF reply.status_code # HttpOk
  THEN [error |-> <<"Failed to fetch page for USDOT: ">> \o u,
        status |-> reply.status_code]
  ELSE IF ~reply.text.ul_col1
  THEN [usdot |-> u, carrier_info |-> <<>>,
        message |-> <<"No carrier info found">>]
  ELSE [usdot |-> u, carrier_info |-> CarrierInfo(reply.text.items, <<>>)]

\* ------------------------------------------------------------ result()
\* outbound calls and pauses, in the order they were made
Event(op, i, arg, ret, secs) ==
  [op |-> op, i |-> i, arg |-> arg, ret |-> ret, secs |-> secs]

PdfUrl(d) == <<"https://li-public.fmcsa.dot.gov/lihtml/rptspdf/LI_REGISTER">>
             \o d \o <<".PDF">>

\* the request: no date parameter, an empty one, or a date
Init ==
  /\ pc = "start"
  /\ date \in {None, <<>>, <<"2", "0", "2", "4", "0", "1", "0", "2">>}
  /\ full_text = <<>>
  /\ mc_list = <<>>
  /\ mc_numbers = <<>>
  /\ pdf_url = None
  /\ exc = None
  /\ idx = 0
  /\ usdot_result = [none |-> TRUE]
  /\ usdot = None
  /\ results = <<>>
  /\ response = NoResponse
  /\ trace = <<>>

\* lines 114-116
MissingDate ==
  /\ pc = "start"
  /\ ~Truthy(date)
  /\ response' = [status |-> HttpBadRequest,
                  body |-> [error |-> <<"Missing date parameter in format YYYYMMDD">>]]
  /\ pc' = "done"
  /\ UNCHANGED <<date, full_text, mc_list, mc_numbers, pdf_url, exc, idx,
                 usdot_result, usdot, results, trace>>

\* what parse_pdf_for_mc raises: ValueError of line 25 for a status other
\* than 200, or whatever requests.get (line 23) or the PDF reader (lines
\* 27-30) raises
PdfFailures(url) ==
  { <<"PDF not available. Status Code: ">> \o StatusStr(code)
      \o <<". URL: ">> \o url : code \in StatusCodes \ {HttpOk} }
  \cup ExceptionTexts

\* mutation: the failure is swallowed and the run goes on with no identifiers
ParsePdfFailsSwallowed ==
  /\ pc = "start"
  /\ Truthy(date)
  /\ trace' = Append(trace, Event("pdf_get", 0, PdfUrl(date), <<>>, 0))
  /\ \E e \in PdfFailures(PdfUrl(date)) : exc' = e
  /\ pdf_url' = PdfUrl(date)
  /\ idx' = 1
  /\ pc' = "loop"
  /\ UNCHANGED <<date, full_text, mc_list, mc_numbers, usdot_result, usdot,
                 results, response>>

\* lines 118-121 with lines 16-32 failing
ParsePdfFails ==
  /\ pc = "start"
  /\ Truthy(date)
  /\ trace' = Append(trace, Event("pdf_get", 0, PdfUrl(date), <<>>, 0))
  /\ \E e \in PdfFailures(PdfUrl(date)) :
       /\ exc' = e
       /\ response' = [status |-> HttpBadRequest,
                       body |-> [error |-> <<"Failed to parse PDF">>,
                                 details |-> e]]
  /\ pc' = "done"
  /\ UNCHANGED <<date, full_text, mc_list, mc_numbers, pdf_url, idx,
                 usdot_result, usdot, results>>

\* lines 118-123 with parse_pdf_for_mc returning
ParsePdfReturns ==
  /\ pc = "start"
  /\ Truthy(date)
  /\ trace' = Append(trace, Event("pdf_get", 0, PdfUrl(date), <<>>, 0))
  /\ \E pages \in Documents : mc_numbers' = ScanText(ExtractText(pages))
  /\ pdf_url' = PdfUrl(date)
  /\ results' = <<>>
  /\ idx' = 1
  /\ pc' = "loop"
  /\ UNCHANGED <<date, full_text, mc_list, exc, usdot_result, usdot, response>>

\* mutation: the details entry is read from the wrong key of the lookup result
FailureOutcomeWrongKey(mc, r) ==
  [mc |-> mc, usdot |-> None,
   carrier_details |-> [error |-> <<"USDOT not found or error occurred">>,
                        details |-> Get(r, "details", <<>>)]]

\* lines 132-136: the outcome recorded for an identifier without USDOT number
FailureOutcome(mc, r) ==
  [mc |-> mc, usdot |-> None,
   carrier_details |-> [error |-> <<"USDOT not found or error occurred">>,
                        details |-> Get(r, "error", <<>>)]]

\* mutation: the continue of line 137 is missing
UsdotAbsentNoContinue ==
  /\ pc = "loop"
  /\ idx <= Len(mc_numbers)
  /\ LET mc == mc_numbers[idx]
     IN  \E reply \in Replies(LookupBodies) :
           LET r == fetch_usdot(mc, reply)
               u == Get(r, "usdot", None)
           IN  /\ ~Truthy(u)
               /\ usdot_result' = r
               /\ usdot' = u
               /\ trace' = Append(trace, Event("fetch_usdot", idx, mc, r, 0))
               /\ results' = Append(results, FailureOutcome(mc, r))
  /\ pc' = "sleep"
  /\ UNCHANGED <<date, full_text, mc_list, mc_numbers, pdf_url, exc, idx,
                 response>>

\* lines 126-137: the lookup yields no USDOT number
UsdotAbsent ==
  /\ pc = "loop"
  /\ idx <= Len(mc_numbers)
  /\ LET mc == mc_numbers[idx]
     IN  \E reply \in Replies(LookupBodies) :
           LET r == fetch_usdot(mc, reply)
               u == Get(r, "usdot", None)
           IN  /\ ~Truthy(u)
               /\ usdot_result' = r
               /\ usdot' = u
               /\ trace' = Append(trace, Event("fetch_usdot", idx, mc, r, 0))
               /\ results' = Append(results, FailureOutcome(mc, r))
  /\ idx' = idx + 1
  /\ pc' = "loop"
  /\ UNCHANGED <<date, full_text, mc_list, mc_numbers, pdf_url, exc, response>>

\* lines 126-130: the lookup yields a USDOT number
UsdotPresent ==
  /\ pc = "loop"
  /\ idx <= Len(mc_numbers)
  /\ LET mc == mc_numbers[idx]
     IN  \E reply \in Replies(LookupBodies) :
           LET r == fetch_usdot(mc, reply)
               u == Get(r, "usdot", None)
           IN  /\ Truthy(u)
               /\ usdot_result' = r
               /\ usdot' = u
               /\ trace' = Append(trace, Event("fetch_usdot", idx, mc, r, 0))
  /\ pc' = "sleep"
  /\ UNCHANGED <<date, full_text, mc_list, mc_numbers, pdf_url, exc, idx,
                 results, response>>

\* mutation: the pause is left out
SleepOmitted ==
  /\ pc = "sleep"
  /\ pc' = "details"
  /\ UNCHANGED <<date, full_text, mc_list, mc_numbers, pdf_url, exc, idx,
                 usdot_result, usdot, results, response, trace>>

\* line 140
Sleep ==
  /\ pc = "sleep"
  /\ trace' = Append(trace, Event("sleep", idx, <<>>, <<>>, SleepSeconds))
  /\ pc' = "details"
  /\ UNCHANGED <<date, full_text, mc_list, mc_numbers, pdf_url, exc, idx,
                 usdot_result, usdot, results, response>>

\* mutation: an exception of the detail fetch is not caught and ends the run
CarrierDetailsRaises ==
  /\ pc = "details"
  /\ \E reply \in Replies(DetailPages) :
       LET carrier_detail == fetch_carrier_details(usdot, reply)
       IN  /\ trace' = Append(trace,
                 Event("fetch_carrier_details", idx, usdot, carrier_detail, 0))
           /\ IF reply.kind = "raise"
              THEN /\ response' = [status |-> 500,
                                   body |-> [error |-> reply.msg]]
                   /\ pc' = "done"
                   /\ UNCHANGED <<results, idx>>
              ELSE /\ results' = Append(results,
                        [mc |-> mc_numbers[idx], usdot |-> usdot,
                         carrier_details |-> carrier_detail])
                   /\ idx' = idx + 1
                   /\ pc' = "loop"
                   /\ UNCHANGED response
  /\ UNCHANGED <<date, full_text, mc_list, mc_numbers, pdf_url, exc,
                 usdot_result, usdot>>

\* mutation: a failed detail fetch is attempted a second time
CarrierDetailsRetries ==
  /\ pc = "details"
  /\ \E reply \in Replies(DetailPages) :
       LET carrier_detail == fetch_carrier_details(usdot, reply)
           ev == Event("fetch_carrier_details", idx, usdot, carrier_detail, 0)
       IN  /\ trace' = IF "error" \in DOMAIN carrier_detail
                       THEN trace \o <<ev, ev>>
                       ELSE Append(trace, ev)
           /\ results' = Append(results,
                 [mc |-> mc_numbers[idx], usdot |-> usdot,
                  carrier_details |-> carrier_detail])
  /\ idx' = idx + 1
  /\ pc' = "loop"
  /\ UNCHANGED <<date, full_text, mc_list, mc_numbers, pdf_url, exc,
                 usdot_result, usdot, response>>

\* lines 143-148
CarrierDetails ==
  /\ pc = "details"
  /\ \E reply \in Replies(DetailPages) :
       LET carrier_detail == fetch_carrier_details(usdot, reply)
       IN  /\ trace' = Append(trace,
                 Event("fetch_carrier_details", idx, usdot, carrier_detail, 0))
           /\ results' = Append(results,
                 [mc |-> mc_numbers[idx], usdot |-> usdot,
                  carrier_details |-> carrier_detail])
  /\ idx' = idx + 1
  /\ pc' = "loop"
  /\ UNCHANGED <<date, full_text, mc_list, mc_numbers, pdf_url, exc,
                 usdot_result, usdot, response>>

\* lines 150-155
Return ==
  /\ pc = "loop"
  /\ idx > Len(mc_numbers)
  /\ response' = [status |-> HttpOk,
                  body |-> [date |-> date, pdf_url |-> pdf_url,
                            total_mc_numbers |-> Len(mc_numbers),
                            results |-> results]]
  /\ pc' = "done"
  /\ UNCHANGED <<date, full_text, mc_list, mc_numbers, pdf_url, exc, idx,
                 usdot_result, usdot, results, trace>>

Next ==
  \/ MissingDate
  \/ ParsePdfFails
  \/ ParsePdfReturns
  \/ UsdotAbsent
  \/ UsdotPresent
  \/ Sleep
  \/ CarrierDetails
  \/ Return

Spec == Init /\ [][Next]_vars

\* the two per-identifier requests carry timeouts (lines 65, 87) and the
\* pause is finite, so once the document stage has returned every step of
\* the loop and the final return are eventually taken
Loop == UsdotAbsent \/ UsdotPresent \/ Sleep \/ CarrierDetails \/ Return

FairSpec == Spec /\ WF_vars(Loop)

\* ===================================================== properties
IsLookup(ev) == ev.op = "fetch_usdot"
IsSleep(ev) == ev.op = "sleep"
IsDetails(ev) == ev.op = "fetch_carrier_details"

\* the USDOT number a lookup event returned, None when it returned none
Resolved(ev) == Get(ev.ret, "usdot", None)

\* an outcome record that reports a failure
IsFailure(rec) == "error" \in DOMAIN rec.carrier_details

DocumentStageSucceeded == pc \in {"loop", "sleep", "details"}

SuccessResponse ==
  /\ pc = "done"
  /\ response.status = HttpOk
  /\ DOMAIN response.body = {"date", "pdf_url", "total_mc_numbers", "results"}

OneOutcomePerIdentifier ==
  /\ response.body.total_mc_numbers = Len(mc_numbers)
  /\ Len(response.body.results) = Len(mc_numbers)
  /\ \A i \in 1..Len(mc_numbers) : response.body.results[i].mc = mc_numbers[i]
  /\ \A i \in 1..(Len(mc_numbers) - 1) : LexLess(mc_numbers[i], mc_numbers[i + 1])

\* C1: once the document stage has succeeded, whatever the lookups and the
\* detail fetches answer, the run ends with a success response, and every
\* success response holds one outcome per identifier of the deduplicated
\* list, in the list's ascending order, total_mc_numbers being their number.
C1_BatchCompletes ==
  /\ [](SuccessResponse => OneOutcomePerIdentifier)
  /\ [](pc = "done" /\ Truthy(date) /\ exc = None => SuccessResponse)
  /\ (DocumentStageSucceeded ~> SuccessResponse)

\* a finished run of three identifiers: a lookup failure, a detail-page
\* failure and a scraped record
C1_Witness ==
  /\ SuccessResponse
  /\ Len(results) = 3
  /\ results[1].usdot = None
  /\ results[2].usdot # None /\ IsFailure(results[2])
  /\ results[3].usdot # None /\ ~IsFailure(results[3])

\* C2: a request whose date is missing or empty makes no outbound call at
\* all and is answered with status 400.
C2_MissingDateNoNetwork ==
  date \in {None, <<>>} =>
    /\ trace = <<>>
    /\ pc \in {"start", "done"}
    /\ pc = "done" => /\ response.status = HttpBadRequest
                      /\ DOMAIN response.body = {"error"}

C2_Witness ==
  /\ date = <<>>
  /\ pc = "done"
  /\ response.status = HttpBadRequest

\* C3: when the document fetch answers with a status other than 200, or the
\* fetch or the text extraction raises, the run ends at once with a 400
\* response carrying the failure text and no results; no lookup, no pause
\* and no detail fetch happens.
C3_DocumentFailureIsTerminal ==
  exc # None =>
    /\ pc = "done"
    /\ response.status = HttpBadRequest
    /\ DOMAIN response.body = {"error", "details"}
    /\ response.body.details = exc
    /\ results = <<>>
    /\ Len(trace) = 1 /\ trace[1].op = "pdf_get"

C3_Witness ==
  /\ pc = "done"
  /\ exc = <<"PDF not available. Status Code: ">> \o StatusStr(404)
             \o <<". URL: ">> \o PdfUrl(date)
  /\ response.status = HttpBadRequest

\* C4: a lookup that yields no USDOT number (no match, status other than
\* 200, exception) is followed by the append of one failure outcome with
\* usdot = None for that identifier and then by the next identifier's lookup:
\* no pause and no detail fetch is made for that identifier.
C4_AbsentSkipsDelayAndDetails ==
  \A k \in DOMAIN trace :
    (IsLookup(trace[k]) /\ Resolved(trace[k]) = None) =>
      LET i == trace[k].i
      IN  /\ Len(results) >= i
          /\ results[i].mc = trace[k].arg
          /\ results[i].usdot = None
          /\ IsFailure(results[i])
          /\ k = Len(trace) => pc \in {"loop", "done"} /\ idx = i + 1
          /\ k < Len(trace) => IsLookup(trace[k + 1]) /\ trace[k + 1].i = i + 1
          /\ \A m \in DOMAIN trace :
               trace[m].i = i => ~IsSleep(trace[m]) /\ ~IsDetails(trace[m])

\* three identifiers whose lookups found no match, were rejected, and raised
C4_Witness ==
  /\ pc = "done"
  /\ Len(trace) = 4
  /\ DOMAIN trace[2].ret = {"mc", "usdot"}
  /\ DOMAIN trace[3].ret = {"error", "status"}
  /\ DOMAIN trace[4].ret = {"error", "details"}
  /\ \A i \in 1..3 : results[i].usdot = None

\* C5: a lookup that yields a USDOT number is followed by exactly one pause
\* of 3 seconds, then by one detail fetch for that USDOT number, then by the
\* append of the identifier's outcome carrying what the detail fetch
\* returned; every detail fetch has a pause directly before it.
C5_DelayThenDetails ==
  /\ \A k \in DOMAIN trace :
       IsDetails(trace[k]) =>
         /\ k >= 3
         /\ IsSleep(trace[k - 1]) /\ trace[k - 1].secs = 3
         /\ IsLookup(trace[k - 2]) /\ trace[k - 2].i = trace[k].i
         /\ trace[k].arg = Resolved(trace[k - 2])
         /\ Len(results) >= trace[k].i
         /\ results[trace[k].i].mc = trace[k - 2].arg
         /\ results[trace[k].i].usdot = trace[k].arg
         /\ DOMAIN results[trace[k].i].carrier_details = DOMAIN trace[k].ret
         /\ results[trace[k].i].carrier_details = trace[k].ret
  /\ \A k \in DOMAIN trace :
       (IsLookup(trace[k]) /\ Resolved(trace[k]) # None) =>
         /\ k = Len(trace) => pc = "sleep" /\ Len(results) = trace[k].i - 1
         /\ k < Len(trace) => IsSleep(trace[k + 1])
         /\ k + 1 = Len(trace) => pc = "details" /\ Len(results) = trace[k].i - 1
         /\ k + 1 < Len(trace) => IsDetails(trace[k + 2])
  /\ \A k \in DOMAIN trace :
       IsSleep(trace[k]) =>
         k >= 2 /\ IsLookup(trace[k - 1]) /\ Resolved(trace[k - 1]) # None

\* two identifiers resolved: one detail fetch failed, one returned a record
C5_Witness ==
  /\ pc = "done"
  /\ Len(trace) = 7
  /\ IsDetails(trace[4]) /\ "error" \in DOMAIN trace[4].ret
  /\ IsDetails(trace[7]) /\ "carrier_info" \in DOMAIN trace[7].ret
  /\ Len(results) = 2

\* the text an outcome record offers as the detail of its failure: the
\* details entry line 135 builds for a failed lookup, the error text of the
\* detail fetch otherwise
FailureDetail(rec) ==
  IF rec.usdot = None THEN rec.carrier_details.details
  ELSE rec.carrier_details.error

LookupOf(i) ==
  trace[CHOOSE k \in DOMAIN trace : IsLookup(trace[k]) /\ trace[k].i = i]

C7_OneAttemptInOrder ==
  LET lookups == SelectSeq(trace, IsLookup)
      details == SelectSeq(trace, IsDetails)
  IN  /\ Len(lookups) <= Len(mc_numbers)
      /\ \A k \in DOMAIN lookups :
           lookups[k].i = k /\ lookups[k].arg = mc_numbers[k]
      /\ \A a, b \in DOMAIN details : a < b => details[a].i < details[b].i
      /\ \A k \in 1..(Len(trace) - 1) : trace[k].i <= trace[k + 1].i
      /\ Len(SelectSeq(trace, IsSleep)) <= Len(lookups)
      /\ SuccessResponse => Len(lookups) = Len(mc_numbers)
      /\ pc # "start" /\ mc_numbers = <<>> => Len(trace) <= 1

\* a finished run of three identifiers with failed calls among them
C7_Witness ==
  /\ SuccessResponse
  /\ Len(mc_numbers) = 3
  /\ Len(SelectSeq(trace, IsLookup)) = 3
  /\ Len(SelectSeq(trace, IsDetails)) = 2
  /\ IsFailure(results[1]) /\ IsFailure(results[2])

StrictlyAscending(list) ==
  \A i \in 1..(Len(list) - 1) : LexLess(list[i], list[i + 1])

\* C8: the list parse_pdf_for_mc returns is in ascending string order
\* without duplicates and holds exactly the identifiers matched in the two
\* regions, however often one is repeated.
C8_SortedUnique ==
  pc = "parsed" =>
    /\ StrictlyAscending(mc_numbers)
    /\ \A i, j \in DOMAIN mc_numbers : i # j => mc_numbers[i] # mc_numbers[j]
    /\ SetOf(mc_numbers) = SetOf(SectionMatches(full_text, "S1", "S2"))
                           \cup SetOf(SectionMatches(full_text, "S2", "E2"))

\* a repeated identifier and two identifiers found in descending order
C8_Witness ==
  /\ pc = "parsed"
  /\ Len(mc_list) = 3
  /\ Len(mc_numbers) = 2
  /\ mc_list[1] = mc_numbers[2]

\* both markers of a section occur, the end marker after the start marker
HasMarkers(t, start, end) ==
  \E i \in DOMAIN t :
    Upper(t[i]) = start /\ \E j \in (i + 1)..Len(t) : Upper(t[j]) = end

\* C9: a section whose start marker or end marker does not occur (or whose
\* end marker does not occur after the start marker) adds nothing to the
\* list, whatever identifier-shaped tokens the text holds, and the other
\* section adds what it adds anyway.
C9_MissingMarkerAddsNothing ==
  LET has1 == HasMarkers(full_text, "S1", "S2")
      has2 == HasMarkers(full_text, "S2", "E2")
  IN  /\ pc = "section_2" /\ ~has1 => mc_list = <<>>
      /\ pc \in {"return", "parsed"} /\ ~has1 =>
           mc_list = SectionMatches(full_text, "S2", "E2")
      /\ pc \in {"return", "parsed"} /\ ~has2 =>
           mc_list = SectionMatches(full_text, "S1", "S2")
      /\ pc = "parsed" /\ ~has1 /\ ~has2 => mc_numbers = <<>>

\* section 2 has its start marker but no end marker; section 1 is complete
\* and adds an identifier; the text holds more identifiers than were added
C9_Witness ==
  /\ pc = "parsed"
  /\ HasMarkers(full_text, "S1", "S2")
  /\ ~HasMarkers(full_text, "S2", "E2")
  /\ mc_list # <<>>
  /\ Len(FindAll(full_text)) > Len(mc_list)

\* C10 as stated: every identifier returned is a whole token of the text,
\* 'MC-' followed by 4 to 8 digits and no further digit; a token of 3 or of
\* 9 digits adds nothing, not even a prefix of itself.
C10_OnlyWholeTokens ==
  pc = "parsed" =>
    \A n \in DOMAIN mc_numbers :
      \E p \in DOMAIN full_text :
        /\ McAt(full_text, p)
        /\ DigitRun(full_text, p + 3) \in MinDigits..MaxDigits
        /\ mc_numbers[n] = SubSeq(full_text, p, p + 2 + DigitRun(full_text, p + 3))

====
